---------------------------- MODULE Spec2Model ----------------------------
(***************************************************************************)
(* Model of the newspaper OCR viewers:                                     *)
(*   src/viewer.py        stateless page overlay and annotated image       *)
(*   src/page_viewer.py   cached page overlay and cached base image        *)
(*   src/block_viewer.py  block viewer with one loaded page                *)
(*                                                                         *)
(* Python floats are modelled as exact rationals [n, d] (d > 0, reduced);  *)
(* int() is truncation toward zero.                                        *)
(***************************************************************************)
EXTENDS Integers, Sequences, FiniteSets, TLC

(***************************************************************************)
(* Program constants                                                       *)
(***************************************************************************)
MaxSpan == 3200
MaxMagnification == 4
DefaultZoom == 100

(***************************************************************************)
(* Exact rational arithmetic standing for the float expressions            *)
(***************************************************************************)
Abs(a) == IF a < 0 THEN -a ELSE a

RECURSIVE GCD(_, _)
GCD(a, b) == IF b = 0 THEN a ELSE GCD(b, a % b)

\* the rational n/d, d # 0, in lowest terms with a positive denominator
Rat(n, d) ==
    LET g == GCD(Abs(n), Abs(d))
        s == IF d < 0 THEN -1 ELSE 1
    IN  [n |-> s * (n \div g), d |-> s * (d \div g)]

RatMul(a, b) ==
    LET x == Rat(a.n, b.d)
        y == Rat(b.n, a.d)
    IN  Rat(x.n * y.n, x.d * y.d)

RatLeq(a, b) == a.n * b.d <= b.n * a.d

RatMin(a, b) == IF RatLeq(a, b) THEN a ELSE b

\* int(x) of a float x = a.n / a.d: truncation toward zero
Trunc(a) == IF a.n >= 0 THEN a.n \div a.d ELSE -((-a.n) \div a.d)

(***************************************************************************)
(* Attributes of the page description and of the query string              *)
(***************************************************************************)
Num(v) == [k |-> "num", v |-> v]
Missing == [k |-> "missing", v |-> 0]
Bad == [k |-> "bad", v |-> 0]

\* int(elem.get(NAME, default)): a missing attribute reads as the default,
\* a malformed one raises ValueError
IntAttr(a, default) ==
    CASE a.k = "num" -> [ok |-> TRUE, v |-> a.v]
      [] a.k = "missing" -> [ok |-> TRUE, v |-> default]
      [] OTHER -> [ok |-> FALSE, v |-> 0]


(***************************************************************************)
(* Bounds of the input sets                                                *)
(***************************************************************************)
ZoomSteps == 4
GridSteps == 2

Categories == {"ComposedBlock", "Illustration", "TextLine", "String"}

\* zoom query arguments: absent, malformed, and numeric values around the
\* default, including zero and a negative one
ZoomArgs == {Missing, Bad, Num(1)} \cup {Num(50 * k) : k \in -1 .. ZoomSteps}

\* native boxes: the example box, boxes at the page edge, empty boxes
BoxXs == {0, 100} \cup {2400 * k : k \in 1 .. GridSteps}
BoxYs == {0, 100} \cup {3475 * k : k \in 1 .. GridSteps}
BoxWs == {0, 200}
BoxHs == {50}

Elem(x, y, w, h) == [HPOS |-> Num(x), VPOS |-> Num(y), WIDTH |-> Num(w), HEIGHT |-> Num(h)]

\* WIDTH and HEIGHT attributes of the Page element
PageAttrs == {<<Num(5000), Num(7000)>>, <<Num(40), Num(30)>>,
              <<Num(5000), Missing>>, <<Missing, Num(7000)>>}

\* a page description file: one String box drawn from the grid, one element
\* of each other category
DocOf(pa, e) ==
    [wellformed |-> TRUE, hasPage |-> TRUE, WIDTH |-> pa[1], HEIGHT |-> pa[2],
     String |-> <<e>>,
     TextLine |-> <<Elem(100, 100, 4000, 60)>>,
     Illustration |-> <<Elem(2500, 3500, 1000, 1000)>>,
     ComposedBlock |-> <<Elem(0, 0, 5000, 3500)>>]

GridDocs ==
    {DocOf(pa, Elem(x, y, w, h)) :
        pa \in PageAttrs, x \in BoxXs, y \in BoxYs, w \in BoxWs, h \in BoxHs}

\* a String element one of whose box attributes is absent or is no number
DefectElems ==
    {[Elem(100, 100, 200, 50) EXCEPT ![f] = a] :
        f \in {"HPOS", "VPOS", "WIDTH", "HEIGHT"}, a \in {Missing, Bad}}

\* descriptions with a defect: in an element's attributes, in the Page
\* element's attributes, without a Page element, not well-formed markup
DefectDocs ==
    {DocOf(<<Num(5000), Num(7000)>>, e) : e \in DefectElems}
    \cup {DocOf(<<Bad, Num(7000)>>, Elem(100, 100, 200, 50)),
          [DocOf(<<Missing, Missing>>, Elem(100, 100, 200, 50)) EXCEPT !.hasPage = FALSE],
          [DocOf(<<Num(5000), Num(7000)>>, Elem(100, 100, 200, 50))
              EXCEPT !.wellformed = FALSE]}

ScaleDocs == GridDocs \cup DefectDocs

\* a raster file: unreadable, or readable with a pixel size and a content
\* version (ver changes when the file is replaced in place)
Raster(w, h, ver) == [readable |-> TRUE, width |-> w, height |-> h, ver |-> ver]
Unreadable == [readable |-> FALSE, width |-> 0, height |-> 0, ver |-> 0]

ScaleRasters == {Unreadable, Raster(2500, 3500, 1), Raster(100, 50, 1), Raster(4000, 3000, 1)}

(***************************************************************************)
(* parse_alto_xml (viewer.py and page_viewer.py have the same parser)      *)
(***************************************************************************)
\* one element's box: int(e.get("HPOS", 0)) ... int(e.get("HEIGHT", 0))
ParseBox(e) ==
    LET x == IntAttr(e.HPOS, 0)
        y == IntAttr(e.VPOS, 0)
        w == IntAttr(e.WIDTH, 0)
        h == IntAttr(e.HEIGHT, 0)
    IN  [ok |-> x.ok /\ y.ok /\ w.ok /\ h.ok,
         x |-> x.v, y |-> y.v, width |-> w.v, height |-> h.v]

ParseBoxes(es) == [i \in 1 .. Len(es) |-> ParseBox(es[i])]

AllOk(bs) == \A i \in 1 .. Len(bs) : bs[i].ok

ParseFailed ==
    [ok |-> FALSE, boxes |-> <<>>, lines |-> <<>>, illustrations |-> <<>>,
     composed_blocks |-> <<>>, page_width |-> 0, page_height |-> 0]

\* ET.parse raises on markup that is not well formed; page.get raises
\* AttributeError when there is no Page element; int() raises ValueError on
\* a malformed number; a missing attribute reads as 0
parse_alto_xml(doc) ==
    IF ~doc.wellformed \/ ~doc.hasPage THEN ParseFailed
    ELSE
        LET pw == IntAttr(doc.WIDTH, 0)
            ph == IntAttr(doc.HEIGHT, 0)
            boxes == ParseBoxes(doc.String)
            lines == ParseBoxes(doc.TextLine)
            ills == ParseBoxes(doc.Illustration)
            blocks == ParseBoxes(doc.ComposedBlock)
        IN  IF pw.ok /\ ph.ok /\ AllOk(boxes) /\ AllOk(lines) /\ AllOk(ills) /\ AllOk(blocks)
            THEN [ok |-> TRUE, boxes |-> boxes, lines |-> lines, illustrations |-> ills,
                  composed_blocks |-> blocks, page_width |-> pw.v, page_height |-> ph.v]
            ELSE ParseFailed

(***************************************************************************)
(* Scale computation of api_page and api_image                             *)
(***************************************************************************)
\* faulty variant: the span is fitted to the raster width alone
base_scale_width_only(img_width, img_height) ==
    RatMin(Rat(MaxSpan, img_width), Rat(MaxMagnification, 1))

\* faulty variant: the magnification is not capped
base_scale_uncapped(img_width, img_height) ==
    RatMin(Rat(MaxSpan, img_width), Rat(MaxSpan, img_height))

\* min(3200 / img_width, 3200 / img_height, 4.0)
base_scale(img_width, img_height) ==
    RatMin(RatMin(Rat(MaxSpan, img_width), Rat(MaxSpan, img_height)), Rat(MaxMagnification, 1))

\* base_scale * zoom_factor, zoom_factor = zoom / 100.0
img_scale(img_width, img_height, zoom) ==
    RatMul(base_scale(img_width, img_height), Rat(zoom, 100))

\* int(img_width * img_scale)
display_size(img_dim, scale) == Trunc(RatMul(Rat(img_dim, 1), scale))

\* img_width / page_width; page_dim # 0
box_scale(img_dim, page_dim) == Rat(img_dim, page_dim)

\* faulty variant: the product is rounded up instead of truncated
scale_coord_ceil(v, bscale, scale) ==
    LET r == RatMul(RatMul(Rat(v, 1), bscale), scale)
    IN  IF r.d = 1 THEN r.n ELSE (r.n \div r.d) + 1

\* faulty variant: the product is rounded to the nearest integer
scale_coord_round(v, bscale, scale) ==
    LET r == RatMul(RatMul(Rat(v, 1), bscale), scale)
    IN  IF r.n >= 0 THEN (2 * r.n + r.d) \div (2 * r.d)
        ELSE -((2 * (-r.n) + r.d) \div (2 * r.d))

\* int(v * box_scale * img_scale)
scale_coord(v, bscale, scale) == Trunc(RatMul(RatMul(Rat(v, 1), bscale), scale))

scale_box(b, box_scale_x, box_scale_y, scale) ==
    [x |-> scale_coord(b.x, box_scale_x, scale),
     y |-> scale_coord(b.y, box_scale_y, scale),
     width |-> scale_coord(b.width, box_scale_x, scale),
     height |-> scale_coord(b.height, box_scale_y, scale)]

scale_boxes(bs, box_scale_x, box_scale_y, scale) ==
    [i \in 1 .. Len(bs) |-> scale_box(bs[i], box_scale_x, box_scale_y, scale)]

(***************************************************************************)
(* State                                                                   *)
(***************************************************************************)
VARIABLES
    vdoc,       \* viewer.py: the description file of the page pair
    vraster,    \* viewer.py: the raster file of the page pair
    vresp,      \* viewer.py: the response to the last request
    xml_files,          \* page_viewer.py: description file of each page pair
    image_files,        \* page_viewer.py: raster file of each page pair
    replaced,           \* number of in-place raster replacements so far
    started,            \* number of requests received so far
    xml_cache,          \* _xml_cache
    image_dims_cache,   \* _image_dims_cache
    rendered_image_cache, \* _rendered_image_cache
    pc,                 \* position of each request thread in its handler
    req,                \* the request each thread serves
    img,                \* the raster a thread has opened
    resp,               \* the response a thread returned
    renders,            \* completed renders (open, resize, encode) per cache key
    opened,             \* the cache keys for which a render has been started
    served,             \* the images returned so far, each with its request
    writes,             \* the caches a thread stored into during its request
    server,             \* block_viewer.py: "starting", "serving" or "crashed"
    pairs,              \* state.pairs: the <<description, raster>> files found
    current_pair_index, \* state.current_pair_index
    blocks,             \* state.blocks
    page_width,         \* state.page_width
    page_height,        \* state.page_height
    image,              \* state.image; NoImage stands for None
    bpc,                \* position of each block viewer thread in its handler
    barg,               \* the index a block viewer thread was called with
    bloc,               \* locals of a thread: the pair it read, the block it read
    bresp,              \* the response a block viewer thread returned
    bstarted            \* number of block viewer requests received so far

viewer_vars == <<vdoc, vraster, vresp>>
files_vars == <<xml_files, image_files, replaced>>
load_vars == <<started>>
cache_vars == <<xml_cache, image_dims_cache, rendered_image_cache>>
thread_vars == <<pc, req, img, resp>>
ghost_vars == <<renders, opened, served, writes>>
page_viewer_vars == <<files_vars, load_vars, cache_vars, thread_vars, ghost_vars>>
viewer_state_vars == <<pairs, current_pair_index, blocks, page_width, page_height, image>>
block_thread_vars == <<bpc, barg, bloc, bresp>>
block_viewer_vars == <<server, viewer_state_vars, block_thread_vars, bstarted>>
other_vars == <<viewer_vars, block_viewer_vars>>
vars == <<viewer_vars, page_viewer_vars, block_viewer_vars>>

(***************************************************************************)
(* Responses of the page and image endpoints.  status is "ok", "error" (an *)
(* error value returned by the handler), "notfound", or "fault" (an        *)
(* exception that leaves the handler).                                     *)
(***************************************************************************)
\* encoded image bytes: a function of the decoded raster and the target size
NoBytes == [src |-> Unreadable, width |-> 0, height |-> 0]

NoResp ==
    [kind |-> "none", status |-> "none", zoom |-> Missing, vis |-> {},
     display_width |-> 0, display_height |-> 0,
     boxes |-> <<>>, lines |-> <<>>, illustrations |-> <<>>, composed_blocks |-> <<>>,
     drawn |-> <<>>, bytes |-> NoBytes, hit |-> FALSE]

Failure(kind, status, zoom, vis) ==
    [NoResp EXCEPT !.kind = kind, !.status = status, !.zoom = zoom, !.vis = vis]

\* the body of api_page's try block once the raster size is known
page_body(parsed, img_width, img_height, zoom, zoomarg) ==
    LET scale == img_scale(img_width, img_height, zoom)
    IN  IF parsed.page_width = 0 \/ parsed.page_height = 0
        THEN Failure("page", "error", zoomarg, Categories)   \* ZeroDivisionError, caught
        ELSE
            LET bsx == box_scale(img_width, parsed.page_width)
                bsy == box_scale(img_height, parsed.page_height)
            IN  [NoResp EXCEPT
                    !.kind = "page", !.status = "ok", !.zoom = zoomarg, !.vis = Categories,
                    !.display_width = display_size(img_width, scale),
                    !.display_height = display_size(img_height, scale),
                    !.boxes = scale_boxes(parsed.boxes, bsx, bsy, scale),
                    !.lines = scale_boxes(parsed.lines, bsx, bsy, scale),
                    !.illustrations = scale_boxes(parsed.illustrations, bsx, bsy, scale),
                    !.composed_blocks = scale_boxes(parsed.composed_blocks, bsx, bsy, scale)]

\* viewer.py api_page on a valid index: parse and zoom conversion are outside
\* the try block, the rest is inside it
viewer_api_page(doc, raster, zoomarg) ==
    LET parsed == parse_alto_xml(doc)
        zoom == IntAttr(zoomarg, DefaultZoom)
    IN  IF ~parsed.ok \/ ~zoom.ok THEN Failure("page", "fault", zoomarg, Categories)
        ELSE IF ~raster.readable THEN Failure("page", "error", zoomarg, Categories)
        ELSE page_body(parsed, raster.width, raster.height, zoom.v, zoomarg)

\* the rectangle drawn on the unscaled image for one native box
draw_rect(cat, b, box_scale_x, box_scale_y) ==
    [cat |-> cat,
     x1 |-> Trunc(RatMul(Rat(b.x, 1), box_scale_x)),
     y1 |-> Trunc(RatMul(Rat(b.y, 1), box_scale_y)),
     x2 |-> Trunc(RatMul(Rat(b.x + b.width, 1), box_scale_x)),
     y2 |-> Trunc(RatMul(Rat(b.y + b.height, 1), box_scale_y))]

draw_category(show, cat, bs, box_scale_x, box_scale_y) ==
    IF show THEN [i \in 1 .. Len(bs) |-> draw_rect(cat, bs[i], box_scale_x, box_scale_y)]
    ELSE <<>>

\* faulty variant: the String boxes are drawn first, below the others
draw_boxes_strings_first(parsed, vis, box_scale_x, box_scale_y) ==
    draw_category("String" \in vis, "String", parsed.boxes, box_scale_x, box_scale_y)
    \o draw_category("ComposedBlock" \in vis, "ComposedBlock", parsed.composed_blocks,
                     box_scale_x, box_scale_y)
    \o draw_category("Illustration" \in vis, "Illustration", parsed.illustrations,
                     box_scale_x, box_scale_y)
    \o draw_category("TextLine" \in vis, "TextLine", parsed.lines, box_scale_x, box_scale_y)

\* the rectangles api_image draws, in the order of its four loops
draw_boxes(parsed, vis, box_scale_x, box_scale_y) ==
    draw_category("ComposedBlock" \in vis, "ComposedBlock", parsed.composed_blocks,
                  box_scale_x, box_scale_y)
    \o draw_category("Illustration" \in vis, "Illustration", parsed.illustrations,
                     box_scale_x, box_scale_y)
    \o draw_category("TextLine" \in vis, "TextLine", parsed.lines, box_scale_x, box_scale_y)
    \o draw_category("String" \in vis, "String", parsed.boxes, box_scale_x, box_scale_y)

\* viewer.py api_image on a valid index; Image.resize raises ValueError when
\* a target dimension is below 1
viewer_api_image(doc, raster, zoomarg, vis) ==
    LET parsed == parse_alto_xml(doc)
        zoom == IntAttr(zoomarg, DefaultZoom)
    IN  IF ~parsed.ok \/ ~zoom.ok THEN Failure("image", "fault", zoomarg, vis)
        ELSE IF ~raster.readable THEN Failure("image", "error", zoomarg, vis)
        ELSE IF parsed.page_width = 0 \/ parsed.page_height = 0
        THEN Failure("image", "error", zoomarg, vis)
        ELSE
            LET scale == img_scale(raster.width, raster.height, zoom.v)
                dw == display_size(raster.width, scale)
                dh == display_size(raster.height, scale)
                bsx == box_scale(raster.width, parsed.page_width)
                bsy == box_scale(raster.height, parsed.page_height)
                drawn == draw_boxes(parsed, vis, bsx, bsy)
            IN  IF dw < 1 \/ dh < 1 THEN Failure("image", "error", zoomarg, vis)
                ELSE [NoResp EXCEPT
                        !.kind = "image", !.status = "ok", !.zoom = zoomarg, !.vis = vis,
                        !.display_width = dw, !.display_height = dh, !.drawn = drawn]

(***************************************************************************)
(* viewer.py: requests against one page pair                               *)
(***************************************************************************)
ViewerInit ==
    /\ vdoc \in ScaleDocs
    /\ vraster \in ScaleRasters
    /\ vresp = NoResp

\* the visibility arguments a page request may carry; api_page reads none
PageVis == {Categories, {"TextLine", "String"}, {}}

\* GET /api/page/<index>?zoom=..., the pair list holding one pair; vis records
\* the visibility arguments of the request
ViewerApiPage ==
    /\ vresp = NoResp
    /\ \E index \in {0, 1}, zoomarg \in ZoomArgs, vis \in PageVis :
          /\ vresp' = IF index >= 1 THEN Failure("page", "notfound", zoomarg, vis)
                      ELSE [viewer_api_page(vdoc, vraster, zoomarg) EXCEPT !.vis = vis]
          /\ UNCHANGED <<vdoc, vraster, page_viewer_vars, block_viewer_vars>>

\* GET /api/image/<index>?zoom=...&composedBlock=...&...
ViewerApiImage ==
    /\ vresp = NoResp
    /\ \E index \in {0, 1}, zoomarg \in ZoomArgs, vis \in SUBSET Categories :
          /\ vresp' = IF index >= 1 THEN Failure("image", "notfound", zoomarg, vis)
                      ELSE viewer_api_image(vdoc, vraster, zoomarg, vis)
          /\ UNCHANGED <<vdoc, vraster, page_viewer_vars, block_viewer_vars>>

(***************************************************************************)
(* page_viewer.py: threads serving requests against the shared caches      *)
(***************************************************************************)
NumThreads == 2
MaxReplacements == 1
MaxRequests == 3

Threads == 1 .. NumThreads
Pages == {0, 1}                 \* valid indexes into _pairs
Indexes == Pages \cup {2}       \* requested indexes, one of them out of range

PVZoomArgs == {Num(100), Num(200), Num(0), Bad}
PVVis == {Categories, {"String"}}

\* the requests sent: every zoom argument for page 0, the default zoom for
\* the other indexes; the visibility arguments vary at the default zoom
ImageRequests ==
    {r \in [kind : {"image"}, index : Indexes, zoom : PVZoomArgs, vis : PVVis] :
        /\ r.index # 0 => r.zoom = Num(100)
        /\ (r.index # 0 \/ r.zoom # Num(100)) => r.vis = Categories}

PageRequests ==
    {r \in [kind : {"page"}, index : Indexes, zoom : PVZoomArgs, vis : {Categories}] :
        r.index # 0 => r.zoom = Num(100)}

GoodDoc == DocOf(<<Num(5000), Num(7000)>>, Elem(100, 100, 200, 50))
NoHeightDoc == DocOf(<<Num(5000), Missing>>, Elem(100, 100, 200, 50))

InitialRaster(p) == IF p = 0 THEN Raster(2500, 3500, 1) ELSE Raster(100, 50, 1)

\* what a raster file is replaced with: page 0 gets other pixels of another
\* size and then a file that cannot be decoded, page 1 the reverse
Replacement(p, r) ==
    IF p = 0
    THEN (IF r.readable /\ r.ver = 1 THEN Raster(1000, 500, 2) ELSE Unreadable)
    ELSE (IF r.readable THEN Unreadable ELSE Raster(1000, 500, 2))

Put(cache, k, v) == [x \in DOMAIN cache \cup {k} |-> IF x = k THEN v ELSE cache[x]]

EmptyCache == [x \in {} |-> 0]

NoReq == [kind |-> "none", index |-> 0, zoom |-> Missing, vis |-> {}]

\* an image returned for a request, with the cache key it was filed under
Served(r, zoom, key, bytes) ==
    [index |-> r.index, zoom |-> zoom, vis |-> r.vis, key |-> key, bytes |-> bytes]

\* faulty variant: the zoom is left out of the key
cache_key_path_only(index, zoom, vis) == <<index, 0>>

\* cache_key = (image_path, zoom)
cache_key(index, zoom, vis) == <<index, zoom>>

\* convert to RGB, resize to the display size, encode as JPEG
render_bytes(raster, zoom) ==
    LET scale == img_scale(raster.width, raster.height, zoom)
    IN  [src |-> raster,
         width |-> display_size(raster.width, scale),
         height |-> display_size(raster.height, scale)]

PageViewerInit ==
    /\ xml_files = [p \in Pages |-> IF p = 0 THEN GoodDoc ELSE NoHeightDoc]
    /\ image_files = [p \in Pages |-> InitialRaster(p)]
    /\ replaced = 0
    /\ started = 0
    /\ xml_cache = EmptyCache
    /\ image_dims_cache = EmptyCache
    /\ rendered_image_cache = EmptyCache
    /\ pc = [t \in Threads |-> "idle"]
    /\ req = [t \in Threads |-> NoReq]
    /\ img = [t \in Threads |-> Unreadable]
    /\ resp = [t \in Threads |-> NoResp]
    /\ renders = [k \in {} |-> 0]
    /\ opened = {}
    /\ served = {}
    /\ writes = [t \in Threads |-> {}]

Done(t, r) ==
    /\ pc' = [pc EXCEPT ![t] = "done"]
    /\ resp' = [resp EXCEPT ![t] = r]

Goto(t, label) ==
    /\ pc' = [pc EXCEPT ![t] = label]
    /\ UNCHANGED resp

ZoomOf(t) == IntAttr(req[t].zoom, DefaultZoom).v

KeyOf(t) == cache_key(req[t].index, ZoomOf(t), req[t].vis)

\* the raster file of a pair is replaced in place on disk
ReplaceRaster(p) ==
    /\ replaced < MaxReplacements
    /\ image_files' = [image_files EXCEPT ![p] = Replacement(p, @)]
    /\ replaced' = replaced + 1
    /\ UNCHANGED <<xml_files, load_vars, cache_vars, thread_vars, ghost_vars, other_vars>>

\* api_image up to the cache lookup: index check, zoom conversion (outside
\* the try block), and a hit served from the cache
ImageRequest(t) ==
    /\ pc[t] = "idle"
    /\ started < MaxRequests
    /\ started' = started + 1
    /\ \E r \in ImageRequests :
          LET zoom == IntAttr(r.zoom, DefaultZoom)
              key == cache_key(r.index, zoom.v, r.vis)
          IN  /\ req' = [req EXCEPT ![t] = r]
              /\ IF r.index \notin Pages
                 THEN /\ Done(t, Failure("image", "notfound", r.zoom, r.vis))
                      /\ UNCHANGED served
                 ELSE IF ~zoom.ok
                 THEN /\ Done(t, Failure("image", "fault", r.zoom, r.vis))
                      /\ UNCHANGED served
                 ELSE IF key \in DOMAIN rendered_image_cache
                 THEN /\ Done(t, [NoResp EXCEPT
                                     !.kind = "image", !.status = "ok", !.zoom = r.zoom,
                                     !.vis = r.vis, !.hit = TRUE,
                                     !.bytes = rendered_image_cache[key],
                                     !.display_width = rendered_image_cache[key].width,
                                     !.display_height = rendered_image_cache[key].height])
                      /\ served' = served \cup
                                    {Served(r, zoom.v, key, rendered_image_cache[key])}
                 ELSE /\ Goto(t, "image_open")
                      /\ UNCHANGED served
    /\ writes' = [writes EXCEPT ![t] = {}]
    /\ UNCHANGED <<files_vars, cache_vars, img, renders, opened, other_vars>>

\* Image.open(image_path)
ImageOpen(t) ==
    /\ pc[t] = "image_open"
    /\ IF image_files[req[t].index].readable
       THEN /\ img' = [img EXCEPT ![t] = image_files[req[t].index]]
            /\ Goto(t, "image_store")
       ELSE /\ Done(t, Failure("image", "error", req[t].zoom, req[t].vis))
            /\ UNCHANGED img
    /\ opened' = opened \cup {KeyOf(t)}
    /\ UNCHANGED <<files_vars, load_vars, cache_vars, req, renders, served, writes,
                   other_vars>>

\* the answer of a request that rendered its image
Rendered(t, bytes) ==
    [NoResp EXCEPT
        !.kind = "image", !.status = "ok", !.zoom = req[t].zoom, !.vis = req[t].vis,
        !.bytes = bytes, !.display_width = bytes.width, !.display_height = bytes.height]

\* faulty variant: the rendered bytes are returned but never stored
ImageStore_no_store(t) ==
    /\ pc[t] = "image_store"
    /\ LET bytes == render_bytes(img[t], ZoomOf(t))
       IN  IF bytes.width < 1 \/ bytes.height < 1
           THEN /\ Done(t, Failure("image", "error", req[t].zoom, req[t].vis))
                /\ UNCHANGED <<renders, served>>
           ELSE /\ renders' = Put(renders, KeyOf(t),
                                  IF KeyOf(t) \in DOMAIN renders
                                  THEN renders[KeyOf(t)] + 1 ELSE 1)
                /\ served' = served \cup {Served(req[t], ZoomOf(t), KeyOf(t), bytes)}
                /\ Done(t, Rendered(t, bytes))
    /\ UNCHANGED <<files_vars, load_vars, cache_vars, req, img, opened, writes, other_vars>>

\* faulty variant: the cache entry is stored before the resize is attempted
ImageStore_store_first(t) ==
    /\ pc[t] = "image_store"
    /\ LET bytes == render_bytes(img[t], ZoomOf(t))
       IN  /\ rendered_image_cache' = Put(rendered_image_cache, KeyOf(t), bytes)
           /\ writes' = [writes EXCEPT ![t] = @ \cup {"image"}]
           /\ IF bytes.width < 1 \/ bytes.height < 1
              THEN /\ Done(t, Failure("image", "error", req[t].zoom, req[t].vis))
                   /\ UNCHANGED <<renders, served>>
              ELSE /\ renders' = Put(renders, KeyOf(t),
                                     IF KeyOf(t) \in DOMAIN renders
                                     THEN renders[KeyOf(t)] + 1 ELSE 1)
                   /\ served' = served \cup {Served(req[t], ZoomOf(t), KeyOf(t), bytes)}
                   /\ Done(t, Rendered(t, bytes))
    /\ UNCHANGED <<files_vars, load_vars, xml_cache, image_dims_cache, req, img, opened,
                   other_vars>>

\* resize, encode, store in the cache and answer; Image.resize raises
\* ValueError when a target dimension is below 1
ImageStore(t) ==
    /\ pc[t] = "image_store"
    /\ LET bytes == render_bytes(img[t], ZoomOf(t))
       IN  IF bytes.width < 1 \/ bytes.height < 1
           THEN /\ Done(t, Failure("image", "error", req[t].zoom, req[t].vis))
                /\ UNCHANGED <<rendered_image_cache, renders, served, writes>>
           ELSE /\ rendered_image_cache' = Put(rendered_image_cache, KeyOf(t), bytes)
                /\ renders' = Put(renders, KeyOf(t),
                                  IF KeyOf(t) \in DOMAIN renders
                                  THEN renders[KeyOf(t)] + 1 ELSE 1)
                /\ served' = served \cup {Served(req[t], ZoomOf(t), KeyOf(t), bytes)}
                /\ writes' = [writes EXCEPT ![t] = @ \cup {"image"}]
                /\ Done(t, Rendered(t, bytes))
    /\ UNCHANGED <<files_vars, load_vars, xml_cache, image_dims_cache, req, img, opened,
                   other_vars>>

\* what api_page does after get_parsed_xml returned: the zoom conversion,
\* still outside the try block
AfterParse(t) ==
    IF IntAttr(req[t].zoom, DefaultZoom).ok
    THEN Goto(t, "page_dims")
    ELSE Done(t, Failure("page", "fault", req[t].zoom, Categories))

\* api_page up to the lookup of get_parsed_xml
PageRequest(t) ==
    /\ pc[t] = "idle"
    /\ started < MaxRequests
    /\ started' = started + 1
    /\ \E r \in PageRequests :
          /\ req' = [req EXCEPT ![t] = r]
          /\ IF r.index \notin Pages
             THEN Done(t, Failure("page", "notfound", r.zoom, Categories))
             ELSE IF r.index \notin DOMAIN xml_cache
             THEN Goto(t, "page_parse")
             ELSE IF IntAttr(r.zoom, DefaultZoom).ok
             THEN Goto(t, "page_dims")
             ELSE Done(t, Failure("page", "fault", r.zoom, Categories))
    /\ writes' = [writes EXCEPT ![t] = {}]
    /\ UNCHANGED <<files_vars, cache_vars, img, renders, opened, served, other_vars>>

\* get_parsed_xml on a miss: parse (an exception leaves the handler) and store
PageParse(t) ==
    /\ pc[t] = "page_parse"
    /\ LET parsed == parse_alto_xml(xml_files[req[t].index])
       IN  IF parsed.ok
           THEN /\ xml_cache' = Put(xml_cache, req[t].index, parsed)
                /\ writes' = [writes EXCEPT ![t] = @ \cup {"xml"}]
                /\ AfterParse(t)
           ELSE /\ Done(t, Failure("page", "fault", req[t].zoom, Categories))
                /\ UNCHANGED <<xml_cache, writes>>
    /\ UNCHANGED <<files_vars, load_vars, image_dims_cache, rendered_image_cache, req, img,
                   renders, opened, served, other_vars>>

\* the page response computed from the cached parse and the raster size
PageResponse(t, dims) ==
    page_body(xml_cache[req[t].index], dims[1], dims[2], ZoomOf(t), req[t].zoom)

\* get_image_dims: lookup; on a hit the rest of the try block follows
PageDims(t) ==
    /\ pc[t] = "page_dims"
    /\ IF req[t].index \in DOMAIN image_dims_cache
       THEN Done(t, PageResponse(t, image_dims_cache[req[t].index]))
       ELSE Goto(t, "page_open")
    /\ UNCHANGED <<files_vars, load_vars, cache_vars, req, img, ghost_vars, other_vars>>

\* get_image_dims on a miss: open the raster, store its size, and the rest of
\* the try block
PageOpen(t) ==
    /\ pc[t] = "page_open"
    /\ LET raster == image_files[req[t].index]
           dims == <<raster.width, raster.height>>
       IN  IF raster.readable
           THEN /\ image_dims_cache' = Put(image_dims_cache, req[t].index, dims)
                /\ writes' = [writes EXCEPT ![t] = @ \cup {"dims"}]
                /\ Done(t, PageResponse(t, dims))
           ELSE /\ Done(t, Failure("page", "error", req[t].zoom, Categories))
                /\ UNCHANGED <<image_dims_cache, writes>>
    /\ UNCHANGED <<files_vars, load_vars, xml_cache, rendered_image_cache, req, img, renders,
                   opened, served, other_vars>>

\* the response has been sent; the thread takes the next request
Finish(t) ==
    /\ pc[t] = "done"
    /\ pc' = [pc EXCEPT ![t] = "idle"]
    /\ req' = [req EXCEPT ![t] = NoReq]
    /\ resp' = [resp EXCEPT ![t] = NoResp]
    /\ img' = [img EXCEPT ![t] = Unreadable]
    /\ writes' = [writes EXCEPT ![t] = {}]
    /\ UNCHANGED <<files_vars, load_vars, cache_vars, renders, opened, served, other_vars>>

(***************************************************************************)
(* block_viewer.py                                                         *)
(***************************************************************************)
Padding == 20
MaxDisplay == 800
MaxDisplayScale == 2

\* a TextBlock element with its TextLine children and their String children
BlockElem(id, x, y, w, h, lines) ==
    [ID |-> id, HPOS |-> Num(x), VPOS |-> Num(y), WIDTH |-> Num(w), HEIGHT |-> Num(h),
     lines |-> lines]

LineElem(x, y, w, h, strings) ==
    [HPOS |-> Num(x), VPOS |-> Num(y), WIDTH |-> Num(w), HEIGHT |-> Num(h),
     strings |-> strings]

BlockDoc(pa, bs) ==
    [wellformed |-> TRUE, hasPage |-> TRUE, WIDTH |-> pa[1], HEIGHT |-> pa[2],
     TextBlock |-> bs]

\* the blocks of a page: one near the origin, one at the far corner
BlocksOf(name) ==
    << BlockElem(<<name, 1>>, 100, 100, 200, 50,
                 <<LineElem(100, 100, 200, 50, <<Elem(100, 100, 90, 50)>>)>>),
       BlockElem(<<name, 2>>, 4800, 6950, 200, 50,
                 <<LineElem(4800, 6950, 200, 50, <<Elem(4800, 6950, 200, 50)>>)>>) >>

GoodBlockDoc(name) == BlockDoc(<<Num(5000), Num(7000)>>, BlocksOf(name))
NoHeightBlockDoc(name) == BlockDoc(<<Num(5000), Missing>>, BlocksOf(name))
BadBlockDoc(name) == BlockDoc(<<Bad, Num(7000)>>, BlocksOf(name))

\* a page whose third block was recognised past the right page edge
NoisyBlockDoc(name) ==
    BlockDoc(<<Num(5000), Num(7000)>>,
             Append(BlocksOf(name),
                    BlockElem(<<name, 3>>, 5100, 100, 200, 50,
                              <<LineElem(5100, 100, 200, 50, <<Elem(5100, 100, 200, 50)>>)>>)))

\* the pair lists find_ocr_files can return: the first starts with a page
\* that loads, the second with a description that does not parse, the third
\* has a block past the page edge and a thumbnail-sized raster
PairLists ==
    { << <<GoodBlockDoc("a"), Raster(2500, 3500, 1)>>,
         <<NoHeightBlockDoc("b"), Raster(2500, 3500, 2)>>,
         <<GoodBlockDoc("c"), Unreadable>> >>,
      << <<BadBlockDoc("d"), Raster(2500, 3500, 4)>>,
         <<GoodBlockDoc("e"), Raster(2500, 3500, 5)>> >>,
      << <<NoisyBlockDoc("f"), Raster(2500, 3500, 6)>>,
         <<GoodBlockDoc("g"), Raster(100, 50, 7)>> >> }

ParseBlockFailed == [ok |-> FALSE, blocks |-> <<>>, page_width |-> 0, page_height |-> 0]

ParseLine(l) ==
    [box |-> ParseBox(l), strings |-> ParseBoxes(l.strings)]

ParseBlock(b) ==
    [id |-> b.ID, box |-> ParseBox(b),
     lines |-> [i \in 1 .. Len(b.lines) |-> ParseLine(b.lines[i])]]

BlockOk(b) ==
    /\ b.box.ok
    /\ \A i \in 1 .. Len(b.lines) : b.lines[i].box.ok /\ AllOk(b.lines[i].strings)

\* block_viewer.py parse_alto_xml
block_parse_alto_xml(doc) ==
    IF ~doc.wellformed \/ ~doc.hasPage THEN ParseBlockFailed
    ELSE
        LET pw == IntAttr(doc.WIDTH, 0)
            ph == IntAttr(doc.HEIGHT, 0)
            bs == [i \in 1 .. Len(doc.TextBlock) |-> ParseBlock(doc.TextBlock[i])]
        IN  IF pw.ok /\ ph.ok /\ \A i \in 1 .. Len(bs) : BlockOk(bs[i])
            THEN [ok |-> TRUE, blocks |-> bs, page_width |-> pw.v, page_height |-> ph.v]
            ELSE ParseBlockFailed

\* state.image: the raster it was decoded from and the rectangles that have
\* been drawn into its pixels since (img.convert("RGB").copy() has none)
NoImage == [loaded |-> FALSE, src |-> Unreadable, marks |-> {}]
Loaded(raster) == [loaded |-> TRUE, src |-> raster, marks |-> {}]

\* the rectangles get_block_image draws for a block, tagged with the block
\* they belong to: one per TextLine (string 0) and one per String of it
block_marks(block) ==
    UNION {{[block |-> block.id, line |-> i, string |-> j] :
                j \in 0 .. Len(block.lines[i].strings)} : i \in 1 .. Len(block.lines)}

\* faulty variant: the rectangles are drawn into state.image itself
image_after_draw_in_place(im, block) ==
    [im EXCEPT !.marks = @ \cup block_marks(block)]

\* state.image after get_block_image has drawn a block: Image.crop returns a
\* new image and ImageDraw.Draw(cropped) draws into that one
image_after_draw(im, block) == im

Max(a, b) == IF a >= b THEN a ELSE b
Min(a, b) == IF a <= b THEN a ELSE b

NoBlockImage ==
    [status |-> "none", src |-> Unreadable, id |-> <<"", 0>>,
     crop |-> <<0, 0, 0, 0>>, display_w |-> 0, display_h |-> 0, marks |-> {}]

\* get_block_image with the image loaded and the block index in range.  No
\* exception is caught: a zero page extent divides by zero, an empty crop
\* divides by zero in the display scale, a display size below 1 fails in
\* Image.resize
block_image(im, bs, pw, ph, block_index) ==
    LET block == bs[block_index + 1]
        w == im.src.width
        h == im.src.height
    IN  IF pw = 0 \/ ph = 0 THEN [NoBlockImage EXCEPT !.status = "fault"]
        ELSE
            LET scale_x == Rat(w, pw)
                scale_y == Rat(h, ph)
                img_x == Trunc(RatMul(Rat(block.box.x, 1), scale_x))
                img_y == Trunc(RatMul(Rat(block.box.y, 1), scale_y))
                img_w == Trunc(RatMul(Rat(block.box.width, 1), scale_x))
                img_h == Trunc(RatMul(Rat(block.box.height, 1), scale_y))
                crop_x1 == Max(0, img_x - Padding)
                crop_y1 == Max(0, img_y - Padding)
                crop_x2 == Min(w, img_x + img_w + Padding)
                crop_y2 == Min(h, img_y + img_h + Padding)
                cw == crop_x2 - crop_x1
                ch == crop_y2 - crop_y1
            IN  IF cw <= 0 \/ ch <= 0 THEN [NoBlockImage EXCEPT !.status = "fault"]
                ELSE
                    LET display_scale ==
                            RatMin(RatMin(Rat(MaxDisplay, cw), Rat(MaxDisplay, ch)),
                                   Rat(MaxDisplayScale, 1))
                        display_w == Trunc(RatMul(Rat(cw, 1), display_scale))
                        display_h == Trunc(RatMul(Rat(ch, 1), display_scale))
                    IN  IF display_w < 1 \/ display_h < 1
                        THEN [NoBlockImage EXCEPT !.status = "fault"]
                        ELSE [status |-> "ok", src |-> im.src, id |-> block.id,
                              crop |-> <<crop_x1, crop_y1, crop_x2, crop_y2>>,
                              display_w |-> display_w, display_h |-> display_h,
                              marks |-> im.marks \cup block_marks(block)]

\* get_block_image: None without an image or with the index past the blocks
get_block_image(im, bs, pw, ph, block_index) ==
    IF ~im.loaded \/ block_index >= Len(bs) THEN NoBlockImage
    ELSE block_image(im, bs, pw, ph, block_index)

NoBlock == [id |-> <<"", 0>>, box |-> [ok |-> TRUE, x |-> 0, y |-> 0, width |-> 0, height |-> 0],
            lines |-> <<>>]

NoBLoc == [pair |-> 0, block |-> NoBlock]

NoBResp == [kind |-> "none", status |-> "none", id |-> <<"", 0>>, total_blocks |-> 0,
            image |-> NoBlockImage]

FileIndexes == 0 .. 3
BlockIndexes == 0 .. 2

BlockViewerInit ==
    /\ server = "starting"
    /\ pairs \in PairLists
    /\ current_pair_index = 0
    /\ blocks = <<>>
    /\ page_width = 0
    /\ page_height = 0
    /\ image = NoImage
    /\ bpc = [t \in Threads |-> "idle"]
    /\ barg = [t \in Threads |-> 0]
    /\ bloc = [t \in Threads |-> NoBLoc]
    /\ bresp = [t \in Threads |-> NoBResp]
    /\ bstarted = 0

\* main: load_base_dir loads pair 0 before the server runs; an exception in
\* parse_alto_xml ends the process
Startup ==
    /\ server = "starting"
    /\ LET parsed == block_parse_alto_xml(pairs[1][1])
           raster == pairs[1][2]
       IN  IF parsed.ok
           THEN /\ blocks' = parsed.blocks
                /\ page_width' = parsed.page_width
                /\ page_height' = parsed.page_height
                /\ image' = IF raster.readable THEN Loaded(raster) ELSE NoImage
                /\ server' = "serving"
           ELSE /\ server' = "crashed"
                /\ UNCHANGED <<blocks, page_width, page_height, image>>
    /\ UNCHANGED <<pairs, current_pair_index, block_thread_vars, bstarted,
                   viewer_vars, page_viewer_vars>>

BDone(t, r) ==
    /\ bpc' = [bpc EXCEPT ![t] = "done"]
    /\ bresp' = [bresp EXCEPT ![t] = r]

BGoto(t, label) ==
    /\ bpc' = [bpc EXCEPT ![t] = label]
    /\ UNCHANGED bresp

\* load_file: state.current_pair_index = file_index
LoadFile(t) ==
    /\ server = "serving"
    /\ bpc[t] = "idle"
    /\ bstarted < MaxRequests
    /\ bstarted' = bstarted + 1
    /\ \E file_index \in FileIndexes :
          /\ barg' = [barg EXCEPT ![t] = file_index]
          /\ current_pair_index' = file_index
    /\ BGoto(t, "load_parse")
    /\ UNCHANGED <<server, pairs, blocks, page_width, page_height, image, bloc,
                   viewer_vars, page_viewer_vars>>

\* load_current_file: read the pair at current_pair_index (IndexError past
\* the list), parse it (an exception leaves the handler) and assign the blocks
\* and the page size
LoadParse(t) ==
    /\ bpc[t] = "load_parse"
    /\ IF current_pair_index >= Len(pairs)
       THEN /\ BDone(t, [NoBResp EXCEPT !.kind = "load", !.status = "fault"])
            /\ UNCHANGED <<blocks, page_width, page_height, bloc>>
       ELSE LET parsed == block_parse_alto_xml(pairs[current_pair_index + 1][1])
            IN  IF parsed.ok
                THEN /\ blocks' = parsed.blocks
                     /\ page_width' = parsed.page_width
                     /\ page_height' = parsed.page_height
                     /\ bloc' = [bloc EXCEPT ![t].pair = current_pair_index]
                     /\ BGoto(t, "load_image")
                ELSE /\ BDone(t, [NoBResp EXCEPT !.kind = "load", !.status = "fault"])
                     /\ UNCHANGED <<blocks, page_width, page_height, bloc>>
    /\ UNCHANGED <<server, pairs, current_pair_index, image, barg, bstarted,
                   viewer_vars, page_viewer_vars>>

\* load_current_file: open the raster of the pair that was read; on an
\* exception state.image = None
LoadImage(t) ==
    /\ bpc[t] = "load_image"
    /\ LET raster == pairs[bloc[t].pair + 1][2]
       IN  image' = IF raster.readable THEN Loaded(raster) ELSE NoImage
    /\ BGoto(t, "load_return")
    /\ UNCHANGED <<server, pairs, current_pair_index, blocks, page_width, page_height,
                   barg, bloc, bstarted, viewer_vars, page_viewer_vars>>

\* load_file: return jsonify({"total_blocks": len(state.blocks)})
LoadReturn(t) ==
    /\ bpc[t] = "load_return"
    /\ BDone(t, [NoBResp EXCEPT !.kind = "load", !.status = "ok",
                                !.total_blocks = Len(blocks)])
    /\ UNCHANGED <<server, viewer_state_vars, barg, bloc, bstarted,
                   viewer_vars, page_viewer_vars>>

\* get_block: the range check and block = state.blocks[block_index]
GetBlock(t) ==
    /\ server = "serving"
    /\ bpc[t] = "idle"
    /\ bstarted < MaxRequests
    /\ bstarted' = bstarted + 1
    /\ \E block_index \in BlockIndexes :
          /\ barg' = [barg EXCEPT ![t] = block_index]
          /\ IF block_index >= Len(blocks)
             THEN /\ BDone(t, [NoBResp EXCEPT !.kind = "block", !.status = "notfound"])
                  /\ UNCHANGED bloc
             ELSE /\ bloc' = [bloc EXCEPT ![t].block = blocks[block_index + 1]]
                  /\ BGoto(t, "block_image")
    /\ UNCHANGED <<server, viewer_state_vars, viewer_vars, page_viewer_vars>>

\* get_block: state.get_block_image(block_index) and the response
GetBlockImage(t) ==
    /\ bpc[t] = "block_image"
    /\ LET im == get_block_image(image, blocks, page_width, page_height, barg[t])
       IN  IF im.status = "fault"
           THEN BDone(t, [NoBResp EXCEPT !.kind = "block", !.status = "fault"])
           ELSE BDone(t, [NoBResp EXCEPT !.kind = "block", !.status = "ok",
                                         !.id = bloc[t].block.id, !.image = im])
    /\ image' = IF image.loaded /\ barg[t] < Len(blocks) /\ page_width # 0 /\ page_height # 0
                THEN image_after_draw(image, blocks[barg[t] + 1])
                ELSE image
    /\ UNCHANGED <<server, pairs, current_pair_index, blocks, page_width, page_height,
                   barg, bloc, bstarted, viewer_vars, page_viewer_vars>>

\* the response has been sent; the thread takes the next request
BFinish(t) ==
    /\ bpc[t] = "done"
    /\ bpc' = [bpc EXCEPT ![t] = "idle"]
    /\ barg' = [barg EXCEPT ![t] = 0]
    /\ bloc' = [bloc EXCEPT ![t] = NoBLoc]
    /\ bresp' = [bresp EXCEPT ![t] = NoBResp]
    /\ UNCHANGED <<server, viewer_state_vars, bstarted, viewer_vars, page_viewer_vars>>

(***************************************************************************)
(* Specifications                                                          *)
(***************************************************************************)
ViewerIdle ==
    /\ vdoc = GoodDoc
    /\ vraster = Unreadable
    /\ vresp = NoResp

\* block_viewer.py not started
BlockViewerIdle ==
    /\ server = "starting"
    /\ pairs = <<>>
    /\ current_pair_index = 0
    /\ blocks = <<>>
    /\ page_width = 0
    /\ page_height = 0
    /\ image = NoImage
    /\ bpc = [t \in Threads |-> "idle"]
    /\ barg = [t \in Threads |-> 0]
    /\ bloc = [t \in Threads |-> NoBLoc]
    /\ bresp = [t \in Threads |-> NoBResp]
    /\ bstarted = 0

Init == PageViewerInit /\ ViewerIdle /\ BlockViewerIdle

\* api_image served by concurrent threads
ImageStep(t) ==
    \/ ImageRequest(t)
    \/ ImageOpen(t)
    \/ ImageStore(t)
    \/ Finish(t)

Next ==
    \/ \E t \in Threads : ImageStep(t)
    \/ \E p \in Pages : ReplaceRaster(p)

Spec == Init /\ [][Next]_vars

\* api_image and api_page serving one request at a time
Solo(t) == \A u \in Threads \ {t} : pc[u] = "idle"

SeqNext ==
    \/ \E t \in Threads : Solo(t) /\ ImageRequest(t)
    \/ \E t \in Threads : Solo(t) /\ ImageOpen(t)
    \/ \E t \in Threads : Solo(t) /\ ImageStore(t)
    \/ \E t \in Threads : Solo(t) /\ PageRequest(t)
    \/ \E t \in Threads : Solo(t) /\ PageParse(t)
    \/ \E t \in Threads : Solo(t) /\ PageDims(t)
    \/ \E t \in Threads : Solo(t) /\ PageOpen(t)
    \/ \E t \in Threads : Solo(t) /\ Finish(t)
    \/ \E p \in Pages : ReplaceRaster(p)

SpecSeq == Init /\ [][SeqNext]_vars

\* viewer.py: the stateless handlers applied to drawn inputs
PageViewerIdle ==
    /\ xml_files = [p \in Pages |-> GoodDoc]
    /\ image_files = [p \in Pages |-> InitialRaster(p)]
    /\ replaced = 0
    /\ started = 0
    /\ xml_cache = EmptyCache
    /\ image_dims_cache = EmptyCache
    /\ rendered_image_cache = EmptyCache
    /\ pc = [t \in Threads |-> "idle"]
    /\ req = [t \in Threads |-> NoReq]
    /\ img = [t \in Threads |-> Unreadable]
    /\ resp = [t \in Threads |-> NoResp]
    /\ renders = [k \in {} |-> 0]
    /\ opened = {}
    /\ served = {}
    /\ writes = [t \in Threads |-> {}]

ScaleInit == ViewerInit /\ PageViewerIdle /\ BlockViewerIdle

ScaleNext ==
    \/ ViewerApiPage
    \/ ViewerApiImage

SpecScale == ScaleInit /\ [][ScaleNext]_vars

\* block_viewer.py served by concurrent threads
BlockInit == BlockViewerInit /\ ViewerIdle /\ PageViewerIdle

BlockNext ==
    \/ Startup
    \/ \E t \in Threads : LoadFile(t)
    \/ \E t \in Threads : LoadParse(t)
    \/ \E t \in Threads : LoadImage(t)
    \/ \E t \in Threads : LoadReturn(t)
    \/ \E t \in Threads : GetBlock(t)
    \/ \E t \in Threads : GetBlockImage(t)
    \/ \E t \in Threads : BFinish(t)

SpecBlock == BlockInit /\ [][BlockNext]_vars

(***************************************************************************)
(* Properties of the scale computation (SpecScale)                         *)
(***************************************************************************)
ExampleDoc == DocOf(<<Num(5000), Num(7000)>>, Elem(100, 100, 200, 50))
ExampleRaster == Raster(2500, 3500, 1)

\* the page overlay of the example page at zoom 100 has been returned
ExampleServed ==
    /\ vdoc = ExampleDoc
    /\ vraster = ExampleRaster
    /\ vresp.kind = "page"
    /\ vresp.status = "ok"
    /\ IntAttr(vresp.zoom, DefaultZoom).v = 100

Box(x, y, w, h) == [x |-> x, y |-> y, width |-> w, height |-> h]

\* C8 as stated: for the 5000x7000 page on a 2500x3500 raster at zoom 100 the
\* image scale is 1.28, the output is 3200x4480 and the native box
\* (100,100,200,50) maps to (64,64,128,32)
C8_ExampleAsStated ==
    ExampleServed =>
        /\ img_scale(2500, 3500, 100) = Rat(128, 100)
        /\ vresp.display_width = 3200
        /\ vresp.display_height = 4480
        /\ vresp.boxes[1] = Box(64, 64, 128, 32)

\* C8 amended: for the 5000x7000 page on a 2500x3500 raster at zoom 100 the
\* image scale is min(3200/2500, 3200/3500, 4) = 32/35, the output is
\* 2285x3200 and the native box (100,100,200,50) maps to (45,45,91,22)
C8_Example ==
    ExampleServed =>
        /\ img_scale(2500, 3500, 100) = Rat(32, 35)
        /\ vresp.display_width = 2285
        /\ vresp.display_height = 3200
        /\ vresp.boxes[1] = Box(45, 45, 91, 22)

C8_Witness == ExampleServed

\* the native boxes of the description in vdoc and the boxes of a page response
NativeBoxes(parsed) ==
    parsed.boxes \o parsed.lines \o parsed.illustrations \o parsed.composed_blocks

OutputBoxes(r) == r.boxes \o r.lines \o r.illustrations \o r.composed_blocks

InsideNative(b, parsed) ==
    /\ b.x >= 0
    /\ b.y >= 0
    /\ b.x + b.width <= parsed.page_width
    /\ b.y + b.height <= parsed.page_height

\* a page overlay has been returned for a positive zoom
PositiveZoomPage ==
    /\ vresp.kind = "page"
    /\ vresp.status = "ok"
    /\ IntAttr(vresp.zoom, DefaultZoom).v > 0

\* C9: every native box inside the native page is mapped, for every raster
\* size and positive zoom, to an output box inside the output size, within
\* one rounding unit
C9_BoxInsideOutput ==
    PositiveZoomPage =>
        LET parsed == parse_alto_xml(vdoc)
            native == NativeBoxes(parsed)
            out == OutputBoxes(vresp)
        IN  \A i \in 1 .. Len(native) :
                InsideNative(native[i], parsed) =>
                    /\ out[i].x >= 0
                    /\ out[i].y >= 0
                    /\ out[i].x + out[i].width <= vresp.display_width + 1
                    /\ out[i].y + out[i].height <= vresp.display_height + 1

\* a box that ends exactly at the right and bottom page edge was transformed
\* at a scale that leaves fractions
C9_Witness ==
    /\ PositiveZoomPage
    /\ LET parsed == parse_alto_xml(vdoc)
           b == parsed.boxes[1]
       IN  /\ InsideNative(b, parsed)
           /\ b.width > 0
           /\ b.x + b.width = parsed.page_width
           /\ b.y + b.height = parsed.page_height
           /\ vresp.boxes[1].x + vresp.boxes[1].width = vresp.display_width
           /\ vresp.display_width * 35 # 2500 * 32

(***************************************************************************)
(* Properties of the rendered image cache of page_viewer.py                *)
(***************************************************************************)
ImageDone(t) == pc[t] = "done" /\ resp[t].kind = "image"

Failed(t) == pc[t] = "done" /\ resp[t].status \in {"error", "notfound", "fault"}

SameRequest(a, b) == a.index = b.index /\ a.zoom = b.zoom /\ a.vis = b.vis

\* C1 as stated: in any sequence of image requests the render of a key is
\* started only once, whatever its outcome: no request opens the raster for
\* a key for which a render was started before
C1_RenderOnceAsStated ==
    [][\A t \in Threads :
          (pc[t] = "image_open" /\ pc'[t] # "image_open") => KeyOf(t) \notin opened]_vars

\* C1 amended: in any sequence of image requests served one at a time, the
\* render of a key completes at most once, two requests with an identical key
\* that succeed return identical bytes, and a request that succeeds returns
\* the bytes of the cache entry; a render that fails stores nothing and is
\* started again by the next request
C1_RenderOnce ==
    /\ \A k \in DOMAIN renders : renders[k] = 1
    /\ \A a, b \in served : SameRequest(a, b) => a.bytes = b.bytes
    /\ \A t \in Threads :
          (ImageDone(t) /\ resp[t].status = "ok") =>
              /\ KeyOf(t) \in DOMAIN rendered_image_cache
              /\ resp[t].bytes = rendered_image_cache[KeyOf(t)]

\* a second request with the key of a completed render is served from the cache
C1_Witness ==
    \E t \in Threads :
        /\ ImageDone(t)
        /\ resp[t].hit
        /\ renders[KeyOf(t)] = 1
        /\ \E a \in served : SameRequest(a, [index |-> req[t].index, zoom |-> ZoomOf(t),
                                              vis |-> req[t].vis])

\* C2: under concurrent requests with the same key the render completes at
\* most once and every caller gets that one result
C2_SingleFlight ==
    /\ \A k \in DOMAIN renders : renders[k] <= 1
    /\ \A a, b \in served : a.key = b.key => a.bytes = b.bytes

\* C3 as stated: two requests that differ in zoom or in visibility set are
\* never served from the same cache entry
C3_KeyAsStated ==
    \A a, b \in served : (a.zoom # b.zoom \/ a.vis # b.vis) => a.key # b.key

\* C3 amended: the cache key is the raster path and the zoom: two requests
\* are served from the same cache entry exactly when they agree in page and
\* zoom; the visibility set is not part of the key
C3_Key ==
    \A a, b \in served : (a.key = b.key) <=> (a.index = b.index /\ a.zoom = b.zoom)

\* images of one page at two zooms, and at one zoom with two visibility
\* sets, have been returned
C3_Witness ==
    /\ \E a, b \in served : a.index = b.index /\ a.zoom # b.zoom
    /\ \E a, b \in served : a.index = b.index /\ a.zoom = b.zoom /\ a.vis # b.vis

\* C4: a cache hit returns the bytes a fresh render of the current raster
\* file would return at that moment
C4_HitIsFresh ==
    [][\A t \in Threads :
          (pc[t] = "idle" /\ pc'[t] = "done" /\ resp'[t].hit) =>
              /\ image_files[req'[t].index].readable
              /\ resp'[t].bytes =
                    render_bytes(image_files[req'[t].index],
                                 IntAttr(req'[t].zoom, DefaultZoom).v)]_vars

\* C5: when the content of a pair's raster changes, which is when the pair
\* is to be invalidated, no cache entry of that pair remains
C5_InvalidateRemovesPair ==
    [][\A p \in Pages :
          image_files'[p] # image_files[p] =>
              \A k \in DOMAIN rendered_image_cache' : k[1] # p]_vars

\* the keys under which a request can store an image
StorableKeys ==
    {cache_key(r.index, IntAttr(r.zoom, DefaultZoom).v, r.vis) :
        r \in {q \in ImageRequests :
                 /\ q.index \in Pages
                 /\ IntAttr(q.zoom, DefaultZoom).ok
                 /\ IntAttr(q.zoom, DefaultZoom).v > 0}}

\* C6: the cache is bounded by a capacity that does not grow with the number
\* of distinct keys requested: it never holds an entry for every key that is
\* requested
C6_Bounded == Cardinality(DOMAIN rendered_image_cache) < Cardinality(StorableKeys)

\* C7 as stated: a request that ends in an error value (unreadable raster,
\* invalid geometry, resize error, page index out of range) has stored
\* nothing in any cache
C7_NoStoreAsStated ==
    \A t \in Threads :
        (pc[t] = "done" /\ resp[t].status \in {"error", "notfound"}) => writes[t] = {}

\* C7 amended: a request that fails has stored nothing in the rendered image
\* cache, and a failed image request leaves no entry under its key; a failed
\* page request may have stored the parsed description and the raster size
\* it obtained before it failed
C7_NoStore ==
    \A t \in Threads :
        Failed(t) =>
            /\ "image" \notin writes[t]
            /\ (resp[t].kind = "image" /\ resp[t].status = "error") =>
                   KeyOf(t) \notin DOMAIN rendered_image_cache

\* an image request failed in its render, and a page request failed after
\* the parse
C7_Witness ==
    \E t \in Threads :
        /\ Failed(t)
        /\ resp[t].status = "error"
        /\ resp[t].kind = "image"
        /\ IntAttr(req[t].zoom, DefaultZoom).v = 0

\* C10: a block image computed for a page whose native width or height is
\* zero ends in an error value reported to the caller, never in an exception
\* that leaves the handler
C10_ZeroGeometryIsError ==
    [][\A t \in Threads :
          ( /\ bpc[t] = "block_image"
            /\ bpc'[t] = "done"
            /\ image.loaded
            /\ barg[t] < Len(blocks)
            /\ (page_width = 0 \/ page_height = 0) )
          => bresp'[t].status = "error"]_vars

(***************************************************************************)
(* Properties of the parser and of the error paths                         *)
(***************************************************************************)
\* the description has a sized Page element and a String element with a box
\* attribute that is absent or is no number
ElementDefect(doc) ==
    /\ doc.wellformed
    /\ doc.hasPage
    /\ doc.WIDTH.k = "num"
    /\ doc.HEIGHT.k = "num"
    /\ doc.String[1] \in DefectElems

\* a page overlay was requested for the pair with a zoom argument that
\* converts and a raster that can be read
PageAnswered ==
    /\ vresp.kind = "page"
    /\ vresp.status # "notfound"
    /\ IntAttr(vresp.zoom, DefaultZoom).ok
    /\ vraster.readable

\* C11: an element whose box attribute is missing or malformed does not
\* abort the parse of the page: the page overlay is returned with every
\* element of the page, a missing attribute read as 0
C11_ElementNeverAborts ==
    (PageAnswered /\ ElementDefect(vdoc)) =>
        /\ vresp.status = "ok"
        /\ Len(vresp.boxes) = Len(vdoc.String)
        /\ Len(vresp.lines) = Len(vdoc.TextLine)
        /\ Len(vresp.illustrations) = Len(vdoc.Illustration)
        /\ Len(vresp.composed_blocks) = Len(vdoc.ComposedBlock)
        /\ (vdoc.String[1].HPOS = Missing => vresp.boxes[1].x = 0)
        /\ (vdoc.String[1].VPOS = Missing => vresp.boxes[1].y = 0)
        /\ (vdoc.String[1].WIDTH = Missing => vresp.boxes[1].width = 0)
        /\ (vdoc.String[1].HEIGHT = Missing => vresp.boxes[1].height = 0)

\* the description declares no page size or is not well-formed markup
LacksPageSize(doc) ==
    \/ ~doc.wellformed
    \/ ~doc.hasPage
    \/ doc.WIDTH = Missing
    \/ doc.HEIGHT = Missing

\* C12: the parser returns no parsed page for a description that declares no
\* page size or is not well-formed: no such page is ever held in _xml_cache
C12_NoParsedPageWithoutSize ==
    \A p \in DOMAIN xml_cache : ~LacksPageSize(xml_files[p])

\* C13: an error raised while parsing the description or while computing the
\* scales reaches the caller of a page request as an error value with no
\* boxes, never as an exception that leaves the handler
C13_StructuredFailure ==
    PageAnswered =>
        /\ vresp.status \in {"ok", "error"}
        /\ (~parse_alto_xml(vdoc).ok => vresp.status = "error")
        /\ (vresp.status = "error" =>
                vresp.boxes = <<>> /\ vresp.lines = <<>> /\ vresp.illustrations = <<>>
                /\ vresp.composed_blocks = <<>>)

\* C14: no failure to load a page ends the process, the first page loaded at
\* start-up included
C14_NeverFatal == server # "crashed"

(***************************************************************************)
(* Properties of the annotation rendering of viewer.py                     *)
(***************************************************************************)
\* position of a category in the back-to-front order
Layer(cat) ==
    CASE cat = "ComposedBlock" -> 1
      [] cat = "Illustration" -> 2
      [] cat = "TextLine" -> 3
      [] cat = "String" -> 4

\* an annotated image has been returned
ImageDrawn == vresp.kind = "image" /\ vresp.status = "ok"

\* C15: in the annotated image every ComposedBlock box is drawn before any
\* Illustration box, every Illustration box before any TextLine box and
\* every TextLine box before any String box, for every visibility set
C15_DrawOrder ==
    ImageDrawn =>
        \A i, j \in 1 .. Len(vresp.drawn) :
            i < j => Layer(vresp.drawn[i].cat) <= Layer(vresp.drawn[j].cat)

\* an annotated image with boxes of all four categories has been returned
C15_Witness ==
    /\ ImageDrawn
    /\ vresp.vis = Categories
    /\ {vresp.drawn[i].cat : i \in 1 .. Len(vresp.drawn)} = Categories

\* the parsed boxes of one category
CategoryBoxes(parsed, cat) ==
    CASE cat = "ComposedBlock" -> parsed.composed_blocks
      [] cat = "Illustration" -> parsed.illustrations
      [] cat = "TextLine" -> parsed.lines
      [] cat = "String" -> parsed.boxes

\* the number of rectangles of a category drawn on the annotated image
DrawnOf(cat) == Cardinality({i \in 1 .. Len(vresp.drawn) : vresp.drawn[i].cat = cat})

\* the number of boxes of a category in the page overlay
OverlayOf(cat) == Len(CategoryBoxes(vresp, cat))

\* a page overlay has been returned
OverlayReturned == vresp.kind = "page" /\ vresp.status = "ok"

\* C16: the annotated image and the page overlay hold every box of
\* each category in the request's visibility set and no box of any other
\* category
C16_Visibility ==
    \A cat \in Categories :
        LET n == Len(CategoryBoxes(parse_alto_xml(vdoc), cat))
        IN  /\ ImageDrawn => DrawnOf(cat) = (IF cat \in vresp.vis THEN n ELSE 0)
            /\ OverlayReturned => OverlayOf(cat) = (IF cat \in vresp.vis THEN n ELSE 0)

(***************************************************************************)
(* Further properties of the caches of page_viewer.py                      *)
(***************************************************************************)
\* C17: once a key has an entry in the rendered image cache, no later
\* request changes the bytes stored under it, in any interleaving of
\* concurrent requests
C17_EntryNeverMutated ==
    [][\A k \in DOMAIN rendered_image_cache :
          /\ k \in DOMAIN rendered_image_cache'
          /\ rendered_image_cache'[k] = rendered_image_cache[k]]_vars

(***************************************************************************)
(* Further properties of the scale computation (SpecScale)                 *)
(***************************************************************************)
\* C18: every box of a page overlay lies inside the display canvas, also
\* when the native box extends past the page edge
C18_InsideCanvas ==
    PositiveZoomPage =>
        LET out == OutputBoxes(vresp)
        IN  \A i \in 1 .. Len(out) :
                /\ out[i].x >= 0
                /\ out[i].y >= 0
                /\ out[i].x + out[i].width <= vresp.display_width
                /\ out[i].y + out[i].height <= vresp.display_height

\* the larger of the two raster dimensions
LargerSide(raster) == IF raster.width >= raster.height THEN raster.width ELSE raster.height

\* the display size of one raster dimension: the raster magnified four times
\* when that still fits the maximum span, else the larger side fitted to the
\* span, times zoom / 100, truncated
ExpectedDisplay(dim, raster, zoom) ==
    IF MaxMagnification * LargerSide(raster) <= MaxSpan
    THEN Trunc(Rat(MaxMagnification * dim * zoom, 100))
    ELSE Trunc(Rat((MaxSpan \div 100) * dim * zoom, LargerSide(raster)))

\* a page overlay or an image has been returned
Displayed == vresp.kind \in {"page", "image"} /\ vresp.status = "ok"

\* C19: the base scale is min(3200 / width, 3200 / height, 4): at zoom 100
\* neither display dimension exceeds 3200 nor four times the raster's, and at
\* every zoom the display size is the raster size times the base scale times
\* zoom / 100
C19_BaseScale ==
    Displayed =>
        LET zoom == IntAttr(vresp.zoom, DefaultZoom).v
        IN  /\ vresp.display_width = ExpectedDisplay(vraster.width, vraster, zoom)
            /\ vresp.display_height = ExpectedDisplay(vraster.height, vraster, zoom)
            /\ zoom = 100 =>
                  /\ vresp.display_width <= MaxSpan
                  /\ vresp.display_height <= MaxSpan
                  /\ vresp.display_width <= MaxMagnification * vraster.width
                  /\ vresp.display_height <= MaxMagnification * vraster.height

\* a small raster was displayed at zoom 100 at four times its size, and a
\* large one fitted to the span
C19_Witness ==
    /\ Displayed
    /\ IntAttr(vresp.zoom, DefaultZoom).v = 100
    /\ \/ vraster.width = 100 /\ vresp.display_width = 400 /\ vresp.display_height = 200
       \/ vraster.width = 4000 /\ vresp.display_width = MaxSpan

\* the exact product native * box scale * image scale of one coordinate
Product(v, img_dim, page_dim) ==
    RatMul(RatMul(Rat(v, 1), Rat(img_dim, page_dim)),
           img_scale(vraster.width, vraster.height, IntAttr(vresp.zoom, DefaultZoom).v))

\* round to nearest of a non-negative rational
RoundNearest(r) == (2 * r.n + r.d) \div (2 * r.d)

\* out is r with its fraction dropped
IsTruncated(out, r) ==
    IF r.n >= 0
    THEN out * r.d <= r.n /\ r.n < (out + 1) * r.d
    ELSE (out - 1) * r.d < r.n /\ r.n <= out * r.d

\* the four exact products of the native box i of the description
Products(i) ==
    LET parsed == parse_alto_xml(vdoc)
        b == NativeBoxes(parsed)[i]
    IN  [x |-> Product(b.x, vraster.width, parsed.page_width),
         y |-> Product(b.y, vraster.height, parsed.page_height),
         width |-> Product(b.width, vraster.width, parsed.page_width),
         height |-> Product(b.height, vraster.height, parsed.page_height)]

BoxFields == {"x", "y", "width", "height"}

\* C20 as stated: every output coordinate of a page overlay is its product
\* rounded to the nearest integer, and so is the display size
C20_RoundedAsStated ==
    PositiveZoomPage =>
        LET out == OutputBoxes(vresp)
            scale == img_scale(vraster.width, vraster.height,
                               IntAttr(vresp.zoom, DefaultZoom).v)
        IN  /\ \A i \in 1 .. Len(out) : \A f \in BoxFields :
                  out[i][f] = RoundNearest(Products(i)[f])
            /\ vresp.display_width = RoundNearest(RatMul(Rat(vraster.width, 1), scale))
            /\ vresp.display_height = RoundNearest(RatMul(Rat(vraster.height, 1), scale))

\* C20 amended: every output coordinate of a page overlay is the two-stage
\* product native * (raster / native size) * image scale with its fraction
\* dropped (truncation toward zero), and so is the display size
C20_Truncated ==
    OverlayReturned =>
        LET out == OutputBoxes(vresp)
            scale == img_scale(vraster.width, vraster.height,
                               IntAttr(vresp.zoom, DefaultZoom).v)
        IN  /\ \A i \in 1 .. Len(out) : \A f \in BoxFields :
                  IsTruncated(out[i][f], Products(i)[f])
            /\ IsTruncated(vresp.display_width, RatMul(Rat(vraster.width, 1), scale))
            /\ IsTruncated(vresp.display_height, RatMul(Rat(vraster.height, 1), scale))

\* a coordinate whose product has a fraction of one half or more was emitted
C20_Witness ==
    /\ PositiveZoomPage
    /\ \E f \in BoxFields : vresp.boxes[1][f] + 1 = RoundNearest(Products(1)[f])


(***************************************************************************)
(* Block viewer: the loaded page, its blocks and the crops made from them  *)
(***************************************************************************)
\* a block request that has been answered with a rendered crop
BlockAnswered(t) ==
    /\ bpc[t] = "done"
    /\ bresp[t].kind = "block"
    /\ bresp[t].status = "ok"
    /\ bresp[t].image.status = "ok"

\* the rasters of the pair list
PairRasters == {pairs[i][2] : i \in 1 .. Len(pairs)}

\* C21: rendering block images never changes the loaded page image: it keeps
\* the size of a raster of the pair list and carries no drawn rectangle, and
\* every returned crop shows only the rectangles of its own block
C21_SourceUntouched ==
    /\ image.loaded => image.marks = {} /\ image.src \in PairRasters
    /\ \A t \in Threads :
          BlockAnswered(t) =>
             \A m \in bresp[t].image.marks : m.block = bresp[t].image.id

\* two crops of different blocks have been rendered from the loaded image
C21_Witness ==
    /\ image.loaded
    /\ \E t, u \in Threads :
          /\ BlockAnswered(t) /\ BlockAnswered(u)
          /\ bresp[t].image.id # bresp[u].image.id
          /\ bresp[t].image.marks # {} /\ bresp[u].image.marks # {}

\* the page a block id was read from, and the page of pair i of the list
PageOfBlock(id) == id[1]
PageOfPair(i) == pairs[i + 1][1].TextBlock[1].ID[1]

\* thread t returns from get_block with a successful response in this step
BlockReturns(t) ==
    /\ bpc[t] = "block_image"
    /\ bpc'[t] = "done"
    /\ bresp'[t].status = "ok"

\* C22: whenever a block request returns, current_pair_index names a pair of
\* the list, the id returned is a block of that pair's page, and a returned
\* crop is a crop of that pair's raster showing that same block
C22_OnePage ==
    [][\A t \in Threads :
          BlockReturns(t) =>
             /\ current_pair_index < Len(pairs)
             /\ PageOfBlock(bresp'[t].id) = PageOfPair(current_pair_index)
             /\ bresp'[t].image.status = "ok" =>
                   /\ bresp'[t].image.id = bresp'[t].id
                   /\ bresp'[t].image.src = pairs[current_pair_index + 1][2]]_vars

\* C23: with a non-empty pair list, current_pair_index is an index into it
C23_IndexValid ==
    Len(pairs) > 0 => current_pair_index \in 0 .. Len(pairs) - 1

\* the outcome of get_block_image for block i of the loaded page
CropOf(i) == block_image(image, blocks, page_width, page_height, i)

\* C24: with an image loaded and a page extent that is not zero, every block
\* of the loaded page gets a crop rectangle that is non-empty and inside the
\* image, and a displayed crop of at most MaxDisplay pixels in each dimension
C24_CropInside ==
    (image.loaded /\ page_width # 0 /\ page_height # 0) =>
       \A i \in 0 .. Len(blocks) - 1 :
          LET im == CropOf(i)
          IN  /\ im.status = "ok"
              /\ 0 <= im.crop[1] /\ im.crop[1] < im.crop[3]
              /\ im.crop[3] <= image.src.width
              /\ 0 <= im.crop[2] /\ im.crop[2] < im.crop[4]
              /\ im.crop[4] <= image.src.height
              /\ im.display_w <= MaxDisplay /\ im.display_h <= MaxDisplay


(***************************************************************************)
(* page_viewer.py: the size reported with the overlay and the image size   *)
(***************************************************************************)
\* thread t returns a successful response of the given kind in this step
Returns(t, kind) ==
    /\ pc[t] # "done"
    /\ pc'[t] = "done"
    /\ resp'[t].kind = kind
    /\ resp'[t].status = "ok"

\* C25: for the same page index and zoom the display size reported with the
\* overlay boxes is the pixel size of the image the image request returns:
\* when a page response is returned while an image of that index and zoom is
\* cached (the image request returns it as it is), or an image is returned
\* while the raster size of that index is cached (the page request computes
\* its display size from it), the two sizes are equal
C25_SameSize ==
    [][\A t \in Threads :
          LET r == req'[t]
              zoom == IntAttr(r.zoom, DefaultZoom).v
              key == cache_key(r.index, zoom, r.vis)
          IN  /\ (Returns(t, "page") /\ key \in DOMAIN rendered_image_cache) =>
                    /\ resp'[t].display_width = rendered_image_cache[key].width
                    /\ resp'[t].display_height = rendered_image_cache[key].height
              /\ ( /\ Returns(t, "image")
                   /\ r.index \in DOMAIN xml_cache
                   /\ r.index \in DOMAIN image_dims_cache ) =>
                    LET dims == image_dims_cache[r.index]
                        body == page_body(xml_cache[r.index], dims[1], dims[2], zoom, r.zoom)
                    IN  body.status = "ok" =>
                           /\ resp'[t].bytes.width = body.display_width
                           /\ resp'[t].bytes.height = body.display_height]_vars

\* C26: a successful page or image response has a display width and height
\* of at least 1 and no negative box coordinate or extent, and no image of
\* a smaller size is in the cache
C26_PositiveDisplay ==
    /\ \A t \in Threads :
          (pc[t] = "done" /\ resp[t].status = "ok") =>
             /\ (resp[t].kind = "page" =>
                    resp[t].display_width >= 1 /\ resp[t].display_height >= 1)
             /\ (resp[t].kind = "image" =>
                    resp[t].bytes.width >= 1 /\ resp[t].bytes.height >= 1)
             /\ \A i \in 1 .. Len(OutputBoxes(resp[t])) :
                   LET b == OutputBoxes(resp[t])[i]
                   IN  b.x >= 0 /\ b.y >= 0 /\ b.width >= 0 /\ b.height >= 0
    /\ \A k \in DOMAIN rendered_image_cache :
          rendered_image_cache[k].width >= 1 /\ rendered_image_cache[k].height >= 1

=============================================================================
